---- MODULE Spec2Model ----
(***************************************************************************)
(* Task lifecycle state machine with observer notification                 *)
(* (TaskManagementSystem.cpp): TaskContext, the four TaskState variants,   *)
(* Task and its fluent builder TaskManager; and the monitoring demo        *)
(* (NotifictionSystem.cpp): main, EventManager and the monitoring thread.  *)
(*                                                                         *)
(* manager  : the Task a TaskManager holds (TaskManager::task), as a       *)
(*            sequence that is empty before the TaskManager is constructed *)
(* built    : the Tasks returned by build(), in the order of the calls     *)
(* console  : the entry-action lines written to cout by handle()           *)
(* inbox    : the Update() calls received by the observers, in call order  *)
(* last     : the last operation called: its name, the object it was       *)
(*            called on, its arguments, what it returned or wrote (print), *)
(*            the lengths of console and inbox when it was called, and     *)
(*            whether the call before it was the same call                 *)
(* chain    : the calls made on the TaskManager before its first build(),  *)
(*            in order, each with its arguments                            *)
(* history  : for each object, which of its dates were given by a setter   *)
(*            (of the Task or, before build(), of the TaskManager), and    *)
(*            for each entry of its observer list the length of console    *)
(*            when it was registered                                       *)
(* used     : how many calls of each bounded kind have been made           *)
(* crashed  : the process has been stopped by a null dereference           *)
(*                                                                         *)
(* mainPc         : the statement of main() of the monitoring demo that    *)
(*                  runs next ("146:push_back": inside subscribe)          *)
(* eventObservers : IEventListener::observers of the EventManager          *)
(* monitorPc      : where the monitoring thread is in monitor(); "idle"    *)
(*                  before the thread is started                           *)
(* usage          : cpuUsage and memUsage of the current round             *)
(* cursor         : the position of the range-for of notify() in the list  *)
(* rounds         : the rounds of the while loop started so far            *)
(* sent           : the send() calls made, in order                        *)
(***************************************************************************)
EXTENDS Integers, Sequences, FiniteSets

VARIABLES manager, built, console, inbox, last, chain, history, used, crashed,
          mainPc, eventObservers, monitorPc, usage, cursor, rounds, sent

taskVars == <<manager, built, console, inbox, last, chain, history, used, crashed>>

demoVars == <<mainPc, eventObservers, monitorPc, usage, cursor, rounds, sent>>

vars == <<manager, built, console, inbox, last, chain, history, used, crashed,
          mainPc, eventObservers, monitorPc, usage, cursor, rounds, sent>>

----------------------------------------------------------------------------
(* Bounds of the model *)

(* build() calls on the TaskManager *)
MaxBuilds == 2
(* entries of all the observer lists together *)
MaxObservers == 2
(* changeState calls *)
MaxCalls == 2
(* setter calls, on the TaskManager and on the Tasks together *)
MaxSets == 2
(* setter calls in the life of one Task (NextLifecycle) *)
MaxLifecycleSets == 1
(* rounds of the while loop of MonitoringSystem::monitor *)
MaxRounds == 2

----------------------------------------------------------------------------
(* Values *)

HIGH == 0
MEDIUM == 1
LOW == 2

TaskPriority == {HIGH, MEDIUM, LOW}

NULL == "nullptr"

(* the concrete TaskState classes a unique_ptr<TaskState> can own *)
StateClasses == {"CreateState", "InProgressState", "CompletedState", "CancelledState"}
(* every value a unique_ptr<TaskState> argument can take *)
StatePtrs == StateClasses \cup {NULL}

(* observers (sinks) that exist, and every value a shared_ptr<TaskObserver> can take *)
Sinks == {"email", "sms"}
SinkPtrs == Sinks \cup {NULL}

Titles == {"Dev Task", "Ops Task"}
Descriptions == {"text"}
Day == 24 * 60 * 60
Times == {0, 3 * Day}

(* the arguments a TaskManager is constructed with, and the time it is    *)
(* constructed at: those of main(), and others that differ in every field *)
CtorArgs ==
    {[id |-> 1001, title |-> "Dev Task", priority |-> LOW, now |-> 0],
     [id |-> 1002, title |-> "Ops Task", priority |-> HIGH, now |-> 3 * Day],
     [id |-> 1002, title |-> "Dev Task", priority |-> MEDIUM, now |-> Day]}

(* a moved-from std::string is valid but unspecified: empty, or still the text *)
MovedFromString(s) == {"", s}

----------------------------------------------------------------------------
(* TaskState variants *)

(* HandleMessage with CompletedState::handle carrying the text of          *)
(* CancelledState::handle                                                  *)
HandleMessageCopied(s) ==
    CASE s = "CreateState"     -> "Task has been created..."
      [] s = "InProgressState" -> "Task has been changed to InProgress..."
      [] s = "CompletedState"  -> "Task has been Cancelled..."
      [] s = "CancelledState"  -> "Task has been Cancelled..."

(* XxxState::handle: the message written to cout and passed to notify *)
HandleMessage(s) ==
    CASE s = "CreateState"     -> "Task has been created..."
      [] s = "InProgressState" -> "Task has been changed to InProgress..."
      [] s = "CompletedState"  -> "Task has been completed..."
      [] s = "CancelledState"  -> "Task has been Cancelled..."

(* XxxState::getCurrentState *)
StateLabel(s) ==
    CASE s = "CreateState"     -> "Created"
      [] s = "InProgressState" -> "InProgress"
      [] s = "CompletedState"  -> "Completed"
      [] s = "CancelledState"  -> "Cancelled"

----------------------------------------------------------------------------
(* TaskContext *)

(* TaskContext::TaskContext *)
TaskContextCtor(newState) ==
    [currentTaskState |-> newState, taskObservers |-> <<>>]

(* setState with a transition table: Completed and Cancelled are final *)
setStateChecked(ctx, newState) ==
    IF ctx.currentTaskState \in {"CompletedState", "CancelledState"}
    THEN ctx
    ELSE [ctx EXCEPT !.currentTaskState = newState]

(* TaskContext::setState *)
setState(ctx, newState) ==
    [ctx EXCEPT !.currentTaskState = newState]

(* TaskContext::addTaskObserver *)
addTaskObserver(ctx, observer) ==
    [ctx EXCEPT !.taskObservers = Append(@, observer)]

(* TaskContext::getCurrentState *)
getCurrentState(ctx) ==
    IF ctx.currentTaskState # NULL THEN StateLabel(ctx.currentTaskState)
                                   ELSE "Invalid State"

NullPositions(observers) == {k \in 1..Len(observers) : observers[k] = NULL}

FirstNull(observers) ==
    CHOOSE k \in NullPositions(observers) : \A j \in NullPositions(observers) : k <= j

(* TaskContext::notify: the positions of the list whose Update() is called, *)
(* in order.  observer->Update(message) on a null shared_ptr is undefined: *)
(* the call loads the vtable pointer through address 0 (or fails the       *)
(* library's non-null assertion), which ends the process at that entry, so *)
(* the entries before the first null one are the ones that are called.     *)
NotifiedPositions(observers) ==
    IF NullPositions(observers) = {} THEN [k \in 1..Len(observers) |-> k]
    ELSE [k \in 1..(FirstNull(observers) - 1) |-> k]

(* TaskContext::notify: the loop reaches a null entry *)
NotifyFaults(observers) == NullPositions(observers) # {}

(* TaskContext::notify: the Update() calls made by notify(message) on obj *)
notify(obj, observers, message) ==
    LET ps == NotifiedPositions(observers)
    IN  [n \in 1..Len(ps) |->
            [task |-> obj, pos |-> ps[n], sink |-> observers[ps[n]],
             message |-> message, call |-> Len(console) + 1]]

(* TaskContext::executeState, with XxxState::handle: the lines it adds to cout *)
executeStateConsole(obj, ctx) ==
    IF ctx.currentTaskState # NULL
    THEN <<[task |-> obj, message |-> HandleMessage(ctx.currentTaskState)]>>
    ELSE <<>>

(* TaskContext::executeState, with XxxState::handle: the Update() calls it makes *)
executeStateInbox(obj, ctx) ==
    IF ctx.currentTaskState # NULL
    THEN notify(obj, ctx.taskObservers, HandleMessage(ctx.currentTaskState))
    ELSE <<>>

(* TaskContext::executeState: the entry action runs into a null observer *)
executeStateFaults(ctx) ==
    ctx.currentTaskState # NULL /\ NotifyFaults(ctx.taskObservers)

----------------------------------------------------------------------------
(* Task *)

TwoDays == 2 * 24 * 60 * 60

(* Task::Task, members in declaration order; taskDescription is default-constructed *)
TaskCtor(id, title, priority, now) ==
    [Id |-> id, taskTitle |-> title, taskDescription |-> "",
     startDate |-> now, endDate |-> now + TwoDays,
     taskPriority |-> priority,
     taskContext |-> TaskContextCtor("CreateState")]

(* a move constructor that leaves the observer list behind *)
TaskMoveCtorWithoutObservers(t) ==
    [t EXCEPT !.taskContext.taskObservers = <<>>]

(* the implicit move constructor of Task: the new object *)
TaskMoveCtor(t) == t

(* the implicit move constructor of Task: what is left in the source object *)
MovedFromTasks(t) ==
    {[t EXCEPT !.taskTitle = title, !.taskDescription = desc,
               !.taskContext = [currentTaskState |-> NULL, taskObservers |-> <<>>]] :
        title \in MovedFromString(t.taskTitle), desc \in MovedFromString(t.taskDescription)}

(* Task::getCurrentTaskPriorityInString *)
getCurrentTaskPriorityInString(t) ==
    IF t.taskPriority = HIGH THEN "High"
    ELSE IF t.taskPriority = MEDIUM THEN "Medium"
    ELSE IF t.taskPriority = LOW THEN "Low"
    ELSE "Invalid"

(* strftime("%Y-%m-%d") of a time_t: the calendar day, as days since the epoch *)
FormatDate(time) == time \div Day

(* Task::print: the summary written to cout *)
Summary(t) ==
    [Id |-> t.Id, Priority |-> getCurrentTaskPriorityInString(t),
     Title |-> t.taskTitle, Description |-> t.taskDescription,
     StartDate |-> FormatDate(t.startDate), EndDate |-> FormatDate(t.endDate),
     TaskStatus |-> getCurrentState(t.taskContext)]

----------------------------------------------------------------------------
(* The objects of the program: 0 is the Task inside the TaskManager,       *)
(* 1..Len(built) are the Tasks returned by build()                         *)

Objects == 0..MaxBuilds
Built == 1..MaxBuilds

Exists(obj) == IF obj = 0 THEN Len(manager) = 1 ELSE obj \in 1..Len(built)

TaskOf(obj) == IF obj = 0 THEN manager[1] ELSE built[obj]

(* the object obj becomes t, every other object stays *)
Store(obj, t) ==
    IF obj = 0 THEN manager' = <<t>> /\ UNCHANGED built
               ELSE built' = [built EXCEPT ![obj] = t] /\ UNCHANGED manager

(* the number of entries of all the observer lists *)
RECURSIVE Registered(_)
Registered(obj) ==
    (IF Exists(obj) THEN Len(TaskOf(obj).taskContext.taskObservers) ELSE 0)
    + (IF obj = 0 THEN 0 ELSE Registered(obj - 1))

Called(op, obj, arg, result) ==
    /\ last' = [op |-> op, obj |-> obj, arg |-> arg, result |-> result,
                nConsole |-> Len(console), nInbox |-> Len(inbox),
                again |-> (last.op = op /\ last.obj = obj /\ last.arg = arg)]
    /\ chain' = IF obj = 0 /\ built = <<>> /\ op # "TaskManager::build"
                THEN Append(chain, [op |-> op, arg |-> arg]) ELSE chain
    /\ history' =
          IF op = "TaskManager::build"
          THEN [history EXCEPT ![Len(built) + 1] = history[0], ![0].since = <<>>]
          ELSE IF op \in {"TaskManager::setStartDate", "Task::setStartDate"}
          THEN [history EXCEPT ![obj].dates = @ \cup {"startDate"}]
          ELSE IF op \in {"TaskManager::setEndDate", "Task::setEndDate"}
          THEN [history EXCEPT ![obj].dates = @ \cup {"endDate"}]
          ELSE IF op \in {"TaskManager::addTaskObserver", "Task::addTaskObserver"}
          THEN [history EXCEPT ![obj].since = Append(@, Len(console))]
          ELSE history
    /\ UNCHANGED demoVars

Init ==
    /\ manager = <<>>
    /\ built = <<>>
    /\ console = <<>>
    /\ inbox = <<>>
    /\ last = [op |-> "start", obj |-> 0, arg |-> <<>>, result |-> <<>>,
               nConsole |-> 0, nInbox |-> 0, again |-> FALSE]
    /\ chain = <<>>
    /\ history = [obj \in Objects |-> [dates |-> {}, since |-> <<>>]]
    /\ used = [calls |-> 0, sets |-> 0]
    /\ crashed = FALSE
    /\ mainPc = "146"
    /\ eventObservers = <<>>
    /\ monitorPc = "idle"
    /\ usage = [cpu |-> 0, mem |-> 0]
    /\ cursor = 0
    /\ rounds = 0
    /\ sent = <<>>

(* a constructor whose body does not call executeState *)
TaskManagerCtorWithoutEntryAction(id, title, priority, now) ==
    /\ ~crashed
    /\ manager = <<>>
    /\ manager' = <<TaskCtor(id, title, priority, now)>>
    /\ Called("TaskManager::TaskManager", 0, <<id, title, priority, now>>, <<>>)
    /\ UNCHANGED <<built, console, inbox, used, crashed>>

(* TaskManager::TaskManager -> Task::Task: the entry action of Created runs *)
(* in the constructor body                                                 *)
TaskManagerCtor(id, title, priority, now) ==
    /\ ~crashed
    /\ manager = <<>>
    /\ LET t == TaskCtor(id, title, priority, now)
       IN  /\ manager' = <<t>>
           /\ console' = console \o executeStateConsole(0, t.taskContext)
           /\ inbox' = inbox \o executeStateInbox(0, t.taskContext)
           /\ crashed' = executeStateFaults(t.taskContext)
    /\ Called("TaskManager::TaskManager", 0, <<id, title, priority, now>>, <<>>)
    /\ UNCHANGED <<built, used>>

(* a setter: the task of obj with one field replaced, nothing else happens *)
Setter(op, obj, arg, t) ==
    /\ ~crashed
    /\ Exists(obj)
    /\ used.sets < MaxSets
    /\ Store(obj, t)
    /\ Called(op, obj, <<arg>>, <<>>)
    /\ used' = [used EXCEPT !.sets = @ + 1]
    /\ UNCHANGED <<console, inbox, crashed>>

(* TaskManager::setDescription *)
MgrSetDescription(description) ==
    Setter("TaskManager::setDescription", 0, description,
           [TaskOf(0) EXCEPT !.taskDescription = description])

(* setPriority that assigns to the other integer member, Id *)
MgrSetPriorityIntoId(taskPriority) ==
    Setter("TaskManager::setPriority", 0, taskPriority,
           [TaskOf(0) EXCEPT !.Id = taskPriority])

(* TaskManager::setPriority *)
MgrSetPriority(taskPriority) ==
    Setter("TaskManager::setPriority", 0, taskPriority,
           [TaskOf(0) EXCEPT !.taskPriority = taskPriority])

(* a setStartDate that moves the default endDate along with startDate *)
MgrSetStartDateShiftingEnd(startDate) ==
    Setter("TaskManager::setStartDate", 0, startDate,
           [TaskOf(0) EXCEPT !.startDate = startDate, !.endDate = startDate + TwoDays])

(* TaskManager::setStartDate *)
MgrSetStartDate(startDate) ==
    Setter("TaskManager::setStartDate", 0, startDate,
           [TaskOf(0) EXCEPT !.startDate = startDate])

(* TaskManager::setEndDate *)
MgrSetEndDate(endDate) ==
    Setter("TaskManager::setEndDate", 0, endDate,
           [TaskOf(0) EXCEPT !.endDate = endDate])

(* setTitle that tells the observers of the change *)
SetTitleNotifying(obj, title) ==
    /\ ~crashed
    /\ Exists(obj)
    /\ used.sets < MaxSets
    /\ Store(obj, [TaskOf(obj) EXCEPT !.taskTitle = title])
    /\ inbox' = inbox \o executeStateInbox(obj, TaskOf(obj).taskContext)
    /\ Called("Task::setTitle", obj, <<title>>, <<>>)
    /\ used' = [used EXCEPT !.sets = @ + 1]
    /\ UNCHANGED <<console, crashed>>

(* Task::setTitle *)
SetTitle(obj, title) ==
    Setter("Task::setTitle", obj, title, [TaskOf(obj) EXCEPT !.taskTitle = title])

(* Task::setDescription *)
SetDescription(obj, desc) ==
    Setter("Task::setDescription", obj, desc, [TaskOf(obj) EXCEPT !.taskDescription = desc])

(* Task::setStartDate *)
SetStartDate(obj, startDate) ==
    Setter("Task::setStartDate", obj, startDate, [TaskOf(obj) EXCEPT !.startDate = startDate])

(* setEndDate that keeps the old value when the new one precedes startDate *)
SetEndDateValidated(obj, endDate) ==
    Setter("Task::setEndDate", obj, endDate,
           IF endDate >= TaskOf(obj).startDate
           THEN [TaskOf(obj) EXCEPT !.endDate = endDate]
           ELSE TaskOf(obj))

(* Task::setEndDate *)
SetEndDate(obj, endDate) ==
    Setter("Task::setEndDate", obj, endDate, [TaskOf(obj) EXCEPT !.endDate = endDate])

(* Task::setTaskPriority *)
SetTaskPriority(obj, priority) ==
    Setter("Task::setTaskPriority", obj, priority, [TaskOf(obj) EXCEPT !.taskPriority = priority])

(* Task::addTaskObserver -> TaskContext::addTaskObserver *)
AddTaskObserver(op, obj, observer) ==
    /\ ~crashed
    /\ Exists(obj)
    /\ Registered(MaxBuilds) < MaxObservers
    /\ Store(obj, [TaskOf(obj) EXCEPT !.taskContext = addTaskObserver(@, observer)])
    /\ Called(op, obj, <<observer>>, <<>>)
    /\ UNCHANGED <<console, inbox, used, crashed>>

(* TaskManager::addTaskObserver *)
MgrAddTaskObserver(observer) ==
    AddTaskObserver("TaskManager::addTaskObserver", 0, observer)

(* Task::addTaskObserver on a built Task *)
TaskAddTaskObserver(obj, observer) ==
    AddTaskObserver("Task::addTaskObserver", obj, observer)

(* TaskManager::build: the returned Task is move-constructed from           *)
(* TaskManager::task, which stays behind in its moved-from state            *)
Build ==
    /\ ~crashed
    /\ Exists(0)
    /\ Len(built) < MaxBuilds
    /\ built' = Append(built, TaskMoveCtor(manager[1]))
    /\ \E t \in MovedFromTasks(manager[1]) : manager' = <<t>>
    /\ Called("TaskManager::build", 0, <<>>, <<Len(built) + 1>>)
    /\ UNCHANGED <<console, inbox, used, crashed>>

(* changeState that returns early when nobody is registered *)
ChangeStateNeedsObservers(obj, newState) ==
    /\ ~crashed
    /\ Exists(obj)
    /\ used.calls < MaxCalls
    /\ LET old == TaskOf(obj).taskContext
           ctx == IF old.taskObservers = <<>> THEN old ELSE setState(old, newState)
           run == old.taskObservers # <<>>
       IN  /\ Store(obj, [TaskOf(obj) EXCEPT !.taskContext = ctx])
           /\ console' = IF run THEN console \o executeStateConsole(obj, ctx) ELSE console
           /\ inbox' = IF run THEN inbox \o executeStateInbox(obj, ctx) ELSE inbox
           /\ crashed' = (run /\ executeStateFaults(ctx))
    /\ Called("Task::changeState", obj, <<newState>>, <<>>)
    /\ used' = [used EXCEPT !.calls = @ + 1]

(* changeState that skips the entry action when the state does not change *)
ChangeStateIfDifferent(obj, newState) ==
    /\ ~crashed
    /\ Exists(obj)
    /\ used.calls < MaxCalls
    /\ LET old == TaskOf(obj).taskContext
           ctx == setState(old, newState)
           run == old.currentTaskState # newState
       IN  /\ Store(obj, [TaskOf(obj) EXCEPT !.taskContext = ctx])
           /\ console' = IF run THEN console \o executeStateConsole(obj, ctx) ELSE console
           /\ inbox' = IF run THEN inbox \o executeStateInbox(obj, ctx) ELSE inbox
           /\ crashed' = (run /\ executeStateFaults(ctx))
    /\ Called("Task::changeState", obj, <<newState>>, <<>>)
    /\ used' = [used EXCEPT !.calls = @ + 1]

(* Task::changeState: setState, then executeState *)
ChangeState(obj, newState) ==
    /\ ~crashed
    /\ Exists(obj)
    /\ used.calls < MaxCalls
    /\ LET ctx == setState(TaskOf(obj).taskContext, newState)
       IN  /\ Store(obj, [TaskOf(obj) EXCEPT !.taskContext = ctx])
           /\ console' = console \o executeStateConsole(obj, ctx)
           /\ inbox' = inbox \o executeStateInbox(obj, ctx)
           /\ crashed' = executeStateFaults(ctx)
    /\ Called("Task::changeState", obj, <<newState>>, <<>>)
    /\ used' = [used EXCEPT !.calls = @ + 1]

(* print that runs the entry action of the current state again *)
TaskPrintNotifying(obj) ==
    /\ ~crashed
    /\ Exists(obj)
    /\ console' = console \o executeStateConsole(obj, TaskOf(obj).taskContext)
    /\ inbox' = inbox \o executeStateInbox(obj, TaskOf(obj).taskContext)
    /\ crashed' = executeStateFaults(TaskOf(obj).taskContext)
    /\ Called("Task::print", obj, <<>>, <<Summary(TaskOf(obj))>>)
    /\ UNCHANGED <<manager, built, used>>

(* Task::print *)
TaskPrint(obj) ==
    /\ ~crashed
    /\ Exists(obj)
    /\ Called("Task::print", obj, <<>>, <<Summary(TaskOf(obj))>>)
    /\ UNCHANGED <<manager, built, console, inbox, used, crashed>>

----------------------------------------------------------------------------
(* Every public operation, with every input *)

Construct ==
    \E a \in CtorArgs : TaskManagerCtor(a.id, a.title, a.priority, a.now)

BuilderSetters ==
    \/ \E description \in Descriptions : MgrSetDescription(description)
    \/ \E taskPriority \in TaskPriority : MgrSetPriority(taskPriority)
    \/ \E startDate \in Times : MgrSetStartDate(startDate)
    \/ \E endDate \in Times : MgrSetEndDate(endDate)

TaskSetters ==
    \/ \E obj \in Built, title \in Titles : SetTitle(obj, title)
    \/ \E obj \in Built, desc \in Descriptions : SetDescription(obj, desc)
    \/ \E obj \in Built, startDate \in Times : SetStartDate(obj, startDate)
    \/ \E obj \in Built, endDate \in Times : SetEndDate(obj, endDate)
    \/ \E obj \in Built, priority \in TaskPriority : SetTaskPriority(obj, priority)

Registrations ==
    \/ \E observer \in SinkPtrs : MgrAddTaskObserver(observer)
    \/ \E obj \in Built, observer \in SinkPtrs : TaskAddTaskObserver(obj, observer)

Transitions ==
    \E obj \in Built, newState \in StatePtrs : ChangeState(obj, newState)

Prints ==
    \E obj \in Built : TaskPrint(obj)

Next ==
    \/ Construct
    \/ BuilderSetters
    \/ TaskSetters
    \/ Registrations
    \/ Build
    \/ Transitions
    \/ Prints

Spec == Init /\ [][Next]_vars

(* registrations and transitions: a task is constructed and built, and no *)
(* field of it is changed afterwards                                       *)
NextNotify ==
    \/ Construct
    \/ Registrations
    \/ Build
    \/ Transitions

SpecNotify == Init /\ [][NextNotify]_vars

(* construction with any arguments, the setters, build and print *)
NextFields ==
    \/ Construct
    \/ BuilderSetters
    \/ TaskSetters
    \/ Build
    \/ Prints

SpecFields == Init /\ [][NextFields]_vars

(* the fluent chains on a TaskManager: construction with any arguments,    *)
(* its setters and registrations in any order, and build()                 *)
NextBuilder ==
    \/ Construct
    \/ BuilderSetters
    \/ \E observer \in SinkPtrs : MgrAddTaskObserver(observer)
    \/ Build

SpecBuilder == Init /\ [][NextBuilder]_vars

(* the life of one Task, as main() drives it: one TaskManager, its chain   *)
(* of setters and registrations, one build(), and then every operation of  *)
(* the Task in any order                                                   *)
NextLifecycle ==
    \/ Construct
    \/ (built = <<>> /\ used.sets < MaxLifecycleSets /\ BuilderSetters)
    \/ (built = <<>> /\ \E observer \in SinkPtrs : MgrAddTaskObserver(observer))
    \/ (built = <<>> /\ Build)
    \/ (used.sets < MaxLifecycleSets /\ TaskSetters)
    \/ (\E obj \in Built, observer \in SinkPtrs : TaskAddTaskObserver(obj, observer))
    \/ Transitions
    \/ Prints

SpecLifecycle == Init /\ [][NextLifecycle]_vars

----------------------------------------------------------------------------
(* The monitoring demo (NotifictionSystem.cpp) *)

EMAIL == 0
SMS == 1

cpuThreshold == 75
memThreshold == 80

(* rand() % 100: some of the values, around both thresholds *)
Usages == {0, 75, 76, 80, 81, 99}

(* NotificationFactory::CreateNotification *)
CreateNotification(notificationType) ==
    CASE notificationType = EMAIL -> "EmailNotification"
      [] notificationType = SMS   -> "SMSNotification"
      [] OTHER                    -> NULL

(* the message of the CPU alert, with to_string(cpuUsage) *)
CpuMessage(cpuUsage) ==
    [text |-> "CPU Usage Alert! CPU Usage: ", value |-> cpuUsage, unit |-> "%"]

(* the message of the memory alert, with to_string(memUsage) *)
MemMessage(memUsage) ==
    [text |-> "Memory Usage Alert! Memory Usage: ", value |-> memUsage, unit |-> "%"]

(* main is inside EventManager::subscribe: push_back is changing the list *)
Writing == mainPc \in {"146:push_back", "147:push_back"}

(* the monitoring thread is inside EventManager::notify: the range-for is  *)
(* reading the list                                                        *)
Reading == monitorPc \in {"notifyCpu", "notifyMem"}

(* main: eventManager->subscribe(CreateNotification(type)) is called *)
MainSubscribeCall(at) ==
    /\ mainPc = at
    /\ mainPc' = IF at = "146" THEN "146:push_back" ELSE "147:push_back"
    /\ UNCHANGED <<eventObservers, monitorPc, usage, cursor, rounds, sent>>
    /\ UNCHANGED taskVars

(* EventManager::subscribe: push_back, and the call returns *)
MainSubscribeReturn(at, notificationType) ==
    /\ mainPc = at
    /\ eventObservers' = Append(eventObservers, CreateNotification(notificationType))
    /\ mainPc' = IF at = "146:push_back" THEN "147" ELSE "149"
    /\ UNCHANGED <<monitorPc, usage, cursor, rounds, sent>>
    /\ UNCHANGED taskVars

(* main: MonitoringSystem ms(eventManager, 75, 80) *)
MainConstructMonitor ==
    /\ mainPc = "149"
    /\ mainPc' = "151"
    /\ UNCHANGED <<eventObservers, monitorPc, usage, cursor, rounds, sent>>
    /\ UNCHANGED taskVars

(* a main that starts the monitoring thread before the second subscribe *)
MainStartThreadEarly ==
    /\ mainPc = "147"
    /\ monitorPc = "idle"
    /\ monitorPc' = "sample"
    /\ UNCHANGED <<mainPc, eventObservers, usage, cursor, rounds, sent>>
    /\ UNCHANGED taskVars

(* main: thread monitoringThread(&MonitoringSystem::monitor, &ms), and     *)
(* then join(), which never returns                                        *)
MainStartThread ==
    /\ mainPc = "151"
    /\ mainPc' = "152"
    /\ monitorPc' = "sample"
    /\ UNCHANGED <<eventObservers, usage, cursor, rounds, sent>>
    /\ UNCHANGED taskVars

(* monitor: a round begins, getCPUUsage() and getMemoryUsage() *)
MonitorSample(cpu, mem) ==
    /\ monitorPc = "sample"
    /\ rounds < MaxRounds
    /\ usage' = [cpu |-> cpu, mem |-> mem]
    /\ rounds' = rounds + 1
    /\ monitorPc' = "checkCpu"
    /\ UNCHANGED <<mainPc, eventObservers, cursor, sent>>
    /\ UNCHANGED taskVars

(* monitor: if (cpuUsage > cpuThreshold) eventManager->notify(message) *)
MonitorCheckCpu ==
    /\ monitorPc = "checkCpu"
    /\ IF usage.cpu > cpuThreshold
       THEN monitorPc' = "notifyCpu" /\ cursor' = 1
       ELSE monitorPc' = "checkMem" /\ UNCHANGED cursor
    /\ UNCHANGED <<mainPc, eventObservers, usage, rounds, sent>>
    /\ UNCHANGED taskVars

(* EventManager::notify: one iteration of the range-for, or its end; send  *)
(* on a null observer ends the process                                     *)
NotifyStep(at, message, after) ==
    /\ monitorPc = at
    /\ IF cursor > Len(eventObservers)
       THEN monitorPc' = after /\ UNCHANGED <<cursor, sent>>
       ELSE IF eventObservers[cursor] = NULL
       THEN monitorPc' = "fault" /\ UNCHANGED <<cursor, sent>>
       ELSE /\ sent' = Append(sent, [observer |-> eventObservers[cursor], message |-> message])
            /\ cursor' = cursor + 1
            /\ UNCHANGED monitorPc
    /\ UNCHANGED <<mainPc, eventObservers, usage, rounds>>
    /\ UNCHANGED taskVars

(* monitor: notify of the CPU alert *)
MonitorNotifyCpu == NotifyStep("notifyCpu", CpuMessage(usage.cpu), "checkMem")

(* monitor: if (memUsage > memThreshold) eventManager->notify(message) *)
MonitorCheckMem ==
    /\ monitorPc = "checkMem"
    /\ IF usage.mem > memThreshold
       THEN monitorPc' = "notifyMem" /\ cursor' = 1
       ELSE monitorPc' = "sleep" /\ UNCHANGED cursor
    /\ UNCHANGED <<mainPc, eventObservers, usage, rounds, sent>>
    /\ UNCHANGED taskVars

(* monitor: notify of the memory alert *)
MonitorNotifyMem == NotifyStep("notifyMem", MemMessage(usage.mem), "sleep")

(* monitor: sleep_for(2 s), and the loop goes round *)
MonitorSleep ==
    /\ monitorPc = "sleep"
    /\ monitorPc' = "sample"
    /\ UNCHANGED <<mainPc, eventObservers, usage, cursor, rounds, sent>>
    /\ UNCHANGED taskVars

(* the steps of main() *)
MainSteps ==
    \/ MainSubscribeCall("146")
    \/ MainSubscribeReturn("146:push_back", EMAIL)
    \/ MainSubscribeCall("147")
    \/ MainSubscribeReturn("147:push_back", SMS)
    \/ MainConstructMonitor
    \/ MainStartThread

(* the steps of the monitoring thread *)
MonitorSteps ==
    \/ \E cpu \in Usages, mem \in Usages : MonitorSample(cpu, mem)
    \/ MonitorCheckCpu
    \/ MonitorNotifyCpu
    \/ MonitorCheckMem
    \/ MonitorNotifyMem
    \/ MonitorSleep

(* the two threads of the demo, interleaved in any way *)
NextMonitor ==
    \/ MainSteps
    \/ MonitorSteps

SpecMonitor == Init /\ [][NextMonitor]_vars

----------------------------------------------------------------------------
(* What the specification says of the state variants: entry-action text    *)
(* and display label                                                       *)

CanonicalText ==
    [s \in StateClasses |->
        CASE s = "CreateState"     -> "Task has been created..."
          [] s = "InProgressState" -> "Task has been changed to InProgress..."
          [] s = "CompletedState"  -> "Task has been completed..."
          [] s = "CancelledState"  -> "Task has been Cancelled..."]

CanonicalLabel ==
    [s \in StateClasses |->
        CASE s = "CreateState"     -> "Created"
          [] s = "InProgressState" -> "InProgress"
          [] s = "CompletedState"  -> "Completed"
          [] s = "CancelledState"  -> "Cancelled"]

ObserversOf(obj) == TaskOf(obj).taskContext.taskObservers

LabelOf(obj) == getCurrentState(TaskOf(obj).taskContext)

(* the Update() calls made by the last operation *)
Delivered == SubSeq(inbox, last.nInbox + 1, Len(inbox))

(* the last operation was changeState(X) with X one of the four variants *)
Transitioned == last.op = "Task::changeState" /\ last.arg[1] \in StateClasses

IsPrefix(a, b) == Len(a) <= Len(b) /\ SubSeq(b, 1, Len(a)) = a

(* how many Update() calls of the entry action number `call` went to the  *)
(* registration at position pos of the list of obj                        *)
Received(obj, pos, call) ==
    Cardinality({i \in DOMAIN inbox :
        inbox[i].task = obj /\ inbox[i].pos = pos /\ inbox[i].call = call})

----------------------------------------------------------------------------
(* C1: every changeState(X) call, X one of the four variants, executes     *)
(* exactly one entry action and one broadcast: the call returns, and by    *)
(* then every entry of the observer list, in registration order, has       *)
(* received exactly one message, X's canonical text.                       *)
C1_OneEntryActionOneBroadcast ==
    Transitioned =>
        /\ ~crashed
        /\ Len(console) = last.nConsole + 1
        /\ console[Len(console)] = [task |-> last.obj, message |-> CanonicalText[last.arg[1]]]
        /\ Len(Delivered) = Len(ObserversOf(last.obj))
        /\ \A k \in 1..Len(Delivered) :
              /\ Delivered[k].task = last.obj
              /\ Delivered[k].pos = k
              /\ Delivered[k].sink = ObserversOf(last.obj)[k]
              /\ Delivered[k].message = CanonicalText[last.arg[1]]

(* C2: construction leaves the task in Created, its Created entry action   *)
(* runs in the constructor while the observer list is empty, and no        *)
(* Update() call ever stems from that entry action, whoever registers      *)
(* later; the Task that build() first returns is in Created.               *)
C2_ConstructionCreatedAndUnheard ==
    /\ last.op = "TaskManager::TaskManager" =>
          /\ manager[1].taskContext.currentTaskState = "CreateState"
          /\ LabelOf(0) = "Created"
          /\ ObserversOf(0) = <<>>
          /\ console = <<[task |-> 0, message |-> "Task has been created..."]>>
          /\ inbox = <<>>
    /\ Exists(0) =>
          /\ console[1] = [task |-> 0, message |-> "Task has been created..."]
          /\ \A i \in DOMAIN inbox : inbox[i].call # 1 /\ inbox[i].task # 0
    /\ (last.op = "TaskManager::build" /\ last.result = <<1>>) => LabelOf(1) = "Created"

(* C2 witness: observers were registered after construction, through the   *)
(* builder and on the built Task, and a transition has reached them        *)
C2_Witness ==
    /\ Transitioned
    /\ chain[Len(chain)].op = "TaskManager::addTaskObserver"
    /\ Len(ObserversOf(last.obj)) = 2
    /\ Len(Delivered) = 2
    /\ \E i \in DOMAIN inbox : inbox[i].message = "Task has been created..."

(* C3: the current state of every Task is one of the four variants, never  *)
(* null, and the label is never "Invalid State".                           *)
C3_StateNeverNull ==
    \A obj \in Built : Exists(obj) =>
        /\ TaskOf(obj).taskContext.currentTaskState \in StateClasses
        /\ LabelOf(obj) # "Invalid State"

(* C4: no transition table: whatever the current state S of a Task,        *)
(* changeState(T) can be called for each of the four variants T, and the   *)
(* call makes T's label the current label and runs T's entry action.       *)
C4_NoTransitionTable ==
    /\ [](\A obj \in Built, T \in StateClasses :
            (Exists(obj) /\ ~crashed /\ used.calls < MaxCalls)
                => ENABLED ChangeState(obj, T))
    /\ [][\A obj \in Built, S \in StatePtrs, T \in StateClasses :
            (/\ Exists(obj)
             /\ TaskOf(obj).taskContext.currentTaskState = S
             /\ used'.calls = used.calls + 1
             /\ last'.obj = obj
             /\ last'.arg = <<T>>)
            => /\ getCurrentState(TaskOf(obj).taskContext)' = CanonicalLabel[T]
               /\ console' = Append(console, [task |-> obj, message |-> CanonicalText[T]])]_vars

(* C4 witness: a Task in Completed was put back to Created *)
C4_Witness ==
    /\ Transitioned
    /\ last.arg = <<"CreateState">>
    /\ used.calls = 2
    /\ Len(console) = 3
    /\ console[2] = [task |-> last.obj, message |-> "Task has been completed..."]
    /\ console[3] = [task |-> last.obj, message |-> "Task has been created..."]
    /\ LabelOf(last.obj) = "Created"

(* C5: changeState(S) called twice in a row with the same variant S        *)
(* notifies twice: every registered observer gets one message from each of *)
(* the two calls, and the label after the second call is S's label, as     *)
(* after the first.                                                        *)
C5_RepeatedTransitionNotifiesTwice ==
    (Transitioned /\ last.again) =>
        /\ Len(console) >= 2
        /\ console[Len(console) - 1] = console[Len(console)]
        /\ console[Len(console)].message = CanonicalText[last.arg[1]]
        /\ \A k \in 1..Len(ObserversOf(last.obj)) :
              ObserversOf(last.obj)[k] \in Sinks =>
                  /\ Received(last.obj, k, Len(console) - 1) = 1
                  /\ Received(last.obj, k, Len(console)) = 1
        /\ LabelOf(last.obj) = CanonicalLabel[last.arg[1]]

(* C5 witness: a Task with two observers was put in the same state twice   *)
(* in a row and four Update() calls were made                              *)
C5_Witness ==
    /\ Transitioned
    /\ last.again
    /\ ObserversOf(last.obj) = <<"email", "sms">>
    /\ Len(inbox) = 4

(* the calls of one operation recorded in chain, in order *)
ChainCalls(op) == SelectSeq(chain, LAMBDA c : c.op = op)

(* the argument of the last call of op in chain, or default if there is none *)
LastGiven(op, default) ==
    IF Len(ChainCalls(op)) = 0 THEN default
    ELSE ChainCalls(op)[Len(ChainCalls(op))].arg[1]

(* the observers given to TaskManager::addTaskObserver, in call order *)
GivenObservers ==
    [k \in 1..Len(ChainCalls("TaskManager::addTaskObserver")) |->
        ChainCalls("TaskManager::addTaskObserver")[k].arg[1]]

(* C6: builder round trip: the Task that build() returns has the id and    *)
(* title given to the constructor, the description and priority given to   *)
(* the setters (the constructor's priority and no description if a setter  *)
(* was not called), state Created, and as observer list exactly the        *)
(* observers given to addTaskObserver, in call order.                      *)
C6_BuilderRoundTrip ==
    (last.op = "TaskManager::build" /\ last.result = <<1>>) =>
        /\ chain[1].op = "TaskManager::TaskManager"
        /\ built[1].Id = chain[1].arg[1]
        /\ built[1].taskTitle = chain[1].arg[2]
        /\ built[1].taskDescription = LastGiven("TaskManager::setDescription", "")
        /\ built[1].taskPriority = LastGiven("TaskManager::setPriority", chain[1].arg[3])
        /\ built[1].taskContext.currentTaskState = "CreateState"
        /\ LabelOf(1) = "Created"
        /\ ObserversOf(1) = GivenObservers

(* C6 witness: TaskManager(1001, "Dev Task", LOW).setDescription("text")   *)
(* .setPriority(HIGH).addTaskObserver(email).addTaskObserver(sms).build()  *)
C6_Witness ==
    /\ last.op = "TaskManager::build"
    /\ last.result = <<1>>
    /\ Len(chain) = 5
    /\ chain[1].arg = <<1001, "Dev Task", LOW, 0>>
    /\ chain[2] = [op |-> "TaskManager::setDescription", arg |-> <<"text">>]
    /\ chain[3] = [op |-> "TaskManager::setPriority", arg |-> <<HIGH>>]
    /\ chain[4] = [op |-> "TaskManager::addTaskObserver", arg |-> <<"email">>]
    /\ chain[5] = [op |-> "TaskManager::addTaskObserver", arg |-> <<"sms">>]
    /\ ObserversOf(1) = <<"email", "sms">>
    /\ built[1].taskPriority = HIGH

(* C7: the builder is single-use: a second build() on the same TaskManager *)
(* is rejected, or what it returns is empty: no observers, no state, and   *)
(* none of the field values of the builder (id, title, description,        *)
(* priority, dates) carried over; and it leaves the Tasks returned before  *)
(* as they were.                                                           *)
C7_SecondBuildRejectedOrEmpty ==
    /\ []((last.op = "TaskManager::build" /\ last.result[1] >= 2) =>
            LET t == built[last.result[1]]
            IN  /\ t.taskContext.taskObservers = <<>>
                /\ t.taskContext.currentTaskState = NULL
                /\ t.taskTitle = ""
                /\ t.taskDescription = ""
                /\ t.Id # built[1].Id
                /\ t.startDate # built[1].startDate
                /\ t.endDate # built[1].endDate)
    /\ [][Len(built') > Len(built) => SubSeq(built', 1, Len(built)) = built]_vars

(* C8: the message of a transition and the label after it depend on the    *)
(* target variant alone, as the table of the variants says; and with the   *)
(* observers email and sms registered through the builder,                 *)
(* changeState(InProgress) then changeState(Completed) calls email and sms *)
(* once each with the InProgress text, then once each with the Completed   *)
(* text.                                                                   *)
C8_MessageAndLabelOfVariant ==
    /\ Transitioned =>
          /\ console[Len(console)].message = CanonicalText[last.arg[1]]
          /\ \A n \in 1..Len(Delivered) : Delivered[n].message = CanonicalText[last.arg[1]]
          /\ LabelOf(last.obj) = CanonicalLabel[last.arg[1]]
    /\ (/\ Transitioned
        /\ last.obj = 1
        /\ GivenObservers = <<"email", "sms">>
        /\ ObserversOf(1) = <<"email", "sms">>
        /\ used.calls = 2
        /\ Len(console) = 3
        /\ console[2] = [task |-> 1, message |-> "Task has been changed to InProgress..."]
        /\ console[3] = [task |-> 1, message |-> "Task has been completed..."])
       => /\ Len(inbox) = 4
          /\ \A n \in 1..4 : inbox[n].task = 1
          /\ <<inbox[1].sink, inbox[2].sink, inbox[3].sink, inbox[4].sink>>
                = <<"email", "sms", "email", "sms">>
          /\ <<inbox[1].message, inbox[2].message>>
                = <<"Task has been changed to InProgress...", "Task has been changed to InProgress...">>
          /\ <<inbox[3].message, inbox[4].message>>
                = <<"Task has been completed...", "Task has been completed...">>
          /\ LabelOf(1) = "Completed"

(* C8 witness: the scenario has run to its end *)
C8_Witness ==
    /\ Transitioned
    /\ last.obj = 1
    /\ last.arg = <<"CompletedState">>
    /\ GivenObservers = <<"email", "sms">>
    /\ ObserversOf(1) = <<"email", "sms">>
    /\ console[2] = [task |-> 1, message |-> "Task has been changed to InProgress..."]
    /\ Len(console) = 3
    /\ Len(inbox) = 4

(* C9: the observer list of a Task only grows at its end (the list before  *)
(* an operation is a prefix of the list after it, and build() hands the    *)
(* builder's list over as it is), and every transition delivers its        *)
(* message to every sink that is in the list.                              *)
C9_ObserversOnlyGrowAndAreServed ==
    /\ [][/\ \A obj \in Built : Exists(obj) => IsPrefix(ObserversOf(obj), ObserversOf(obj)')
          /\ Len(built') > Len(built) =>
                built'[Len(built')].taskContext.taskObservers = ObserversOf(0)]_vars
    /\ [](Transitioned =>
            \A k \in 1..Len(ObserversOf(last.obj)) :
                ObserversOf(last.obj)[k] \in Sinks =>
                    \E n \in 1..Len(Delivered) :
                        /\ Delivered[n].pos = k
                        /\ Delivered[n].sink = ObserversOf(last.obj)[k])

(* C10: no deduplication: a sink registered k times holds k entries of the *)
(* list, and every transition calls it exactly k times, once for each of   *)
(* the positions it is registered at.                                      *)
C10_DuplicateRegistrationsServed ==
    /\ (last.op \in {"Task::addTaskObserver", "TaskManager::addTaskObserver"}) =>
          ObserversOf(last.obj)[Len(ObserversOf(last.obj))] = last.arg[1]
    /\ Transitioned =>
          \A s \in Sinks :
              {Delivered[n].pos : n \in {m \in 1..Len(Delivered) : Delivered[m].sink = s}}
                  = {k \in 1..Len(ObserversOf(last.obj)) : ObserversOf(last.obj)[k] = s}
    /\ Transitioned => \A m, n \in 1..Len(Delivered) : Delivered[m].pos = Delivered[n].pos => m = n

(* C11: a Task built with no observers and then given changeState(X), for  *)
(* any X, gets no Update() call made, the call returns, and the Task is in *)
(* state X afterwards (with X's label and X's entry-action line when X is  *)
(* one of the four variants).                                              *)
C11_NoObserversNoDelivery ==
    (last.op = "Task::changeState" /\ ObserversOf(last.obj) = <<>>) =>
        /\ ~crashed
        /\ Delivered = <<>>
        /\ TaskOf(last.obj).taskContext.currentTaskState = last.arg[1]
        /\ Transitioned =>
              /\ LabelOf(last.obj) = CanonicalLabel[last.arg[1]]
              /\ Len(console) = last.nConsole + 1
              /\ console[Len(console)] =
                    [task |-> last.obj, message |-> CanonicalText[last.arg[1]]]

(* C11 witness: a Task built by a chain without addTaskObserver, nobody    *)
(* registered on it since, was moved to InProgress and then to Completed   *)
C11_Witness ==
    /\ Transitioned
    /\ last.obj = 1
    /\ last.arg = <<"CompletedState">>
    /\ GivenObservers = <<>>
    /\ ObserversOf(1) = <<>>
    /\ used.calls = 2
    /\ Len(console) = 3
    /\ inbox = <<>>

(* C12: registering a null sink is guarded: no observer list ever holds a  *)
(* null entry (addTaskObserver(nullptr) is refused and leaves the list as  *)
(* it was), so no broadcast ever dereferences one.                         *)
C12_NullSinkRefused ==
    /\ \A obj \in Objects : Exists(obj) => NullPositions(ObserversOf(obj)) = {}
    /\ ~crashed

(* C13: print is a pure query: it makes no Update() call, writes no        *)
(* entry-action line, and leaves every Task (state, observer list, every   *)
(* field) as it was, and what it writes is the summary of the Task as it   *)
(* is; whereas every changeState(X), X one of the four variants, runs X's  *)
(* entry action and starts its broadcast: every entry of the observer list *)
(* up to the first null one is called with X's text.                       *)
C13_PrintIsPureQuery ==
    /\ [][last'.op = "Task::print" =>
            /\ manager' = manager
            /\ built' = built
            /\ console' = console
            /\ inbox' = inbox
            /\ crashed' = crashed
            /\ last'.result = <<Summary(TaskOf(last'.obj))>>]_vars
    /\ [](Transitioned =>
            /\ Len(console) = last.nConsole + 1
            /\ \A k \in 1..Len(ObserversOf(last.obj)) :
                  (\A j \in 1..k : ObserversOf(last.obj)[j] # NULL) =>
                      /\ k <= Len(Delivered)
                      /\ Delivered[k].sink = ObserversOf(last.obj)[k]
                      /\ Delivered[k].message = CanonicalText[last.arg[1]])

(* C13 witness: a Task with the observers email and sms, moved to          *)
(* InProgress (two Update() calls), was printed                            *)
C13_Witness ==
    /\ last.op = "Task::print"
    /\ ObserversOf(last.obj) = <<"email", "sms">>
    /\ Len(inbox) = 2
    /\ last.result[1].TaskStatus = "InProgress"

(* the setters of the two dates, of the TaskManager and of the Task *)
StartDateSetters == {"TaskManager::setStartDate", "Task::setStartDate"}
EndDateSetters == {"TaskManager::setEndDate", "Task::setEndDate"}

(* C14: the dates are never validated against each other: setStartDate(s)  *)
(* and setEndDate(e), of the Task and of the TaskManager, can always be    *)
(* called, with any value, and each stores the value it is given, also     *)
(* when that leaves endDate before startDate; it changes no other field,   *)
(* not the state, no other Task, and nothing is written or delivered.      *)
C14_DatesNeverValidated ==
    /\ [](\A v \in Times :
            (~crashed /\ used.sets < MaxSets) =>
                /\ Exists(0) => (ENABLED MgrSetStartDate(v) /\ ENABLED MgrSetEndDate(v))
                /\ \A obj \in Built : Exists(obj) =>
                      (ENABLED SetStartDate(obj, v) /\ ENABLED SetEndDate(obj, v)))
    /\ [][\A obj \in Objects, v \in Times :
            (/\ last'.op \in StartDateSetters \cup EndDateSetters
             /\ used'.sets = used.sets + 1
             /\ last'.obj = obj
             /\ last'.arg = <<v>>)
            => /\ last'.op \in StartDateSetters =>
                     TaskOf(obj)' = [TaskOf(obj) EXCEPT !.startDate = v]
               /\ last'.op \in EndDateSetters =>
                     TaskOf(obj)' = [TaskOf(obj) EXCEPT !.endDate = v]
               /\ \A other \in Objects \ {obj} :
                     Exists(other) => TaskOf(other)' = TaskOf(other)
               /\ console' = console
               /\ inbox' = inbox
               /\ crashed' = crashed]_vars

(* C14 witness: setEndDate on a built Task has left its endDate before its *)
(* startDate                                                               *)
C14_Witness ==
    /\ last.op = "Task::setEndDate"
    /\ TaskOf(last.obj).endDate = last.arg[1]
    /\ TaskOf(last.obj).endDate < TaskOf(last.obj).startDate

(* C15, as claimed: for every Task whose endDate was never given by a      *)
(* setEndDate (of the TaskManager or of the Task), endDate is startDate    *)
(* plus two days, also after setStartDate.                                 *)
C15_DefaultEndFollowsStart ==
    \A obj \in Objects :
        (Exists(obj) /\ "endDate" \notin history[obj].dates) =>
            TaskOf(obj).endDate = TaskOf(obj).startDate + 2 * 24 * 60 * 60

(* C15, amended: the default is computed once, in the constructor: for     *)
(* every Task whose endDate was never given by a setEndDate, endDate is    *)
(* the time of construction plus two days, whatever setStartDate was given *)
(* since; it is startDate plus two days as long as setStartDate was not    *)
(* called either.                                                          *)
C15_DefaultEndSetAtConstruction ==
    \A obj \in Objects :
        (Exists(obj) /\ "endDate" \notin history[obj].dates) =>
            /\ chain[1].op = "TaskManager::TaskManager"
            /\ TaskOf(obj).endDate = chain[1].arg[4] + 2 * 24 * 60 * 60
            /\ history[obj].dates = {} =>
                  TaskOf(obj).endDate = TaskOf(obj).startDate + 2 * 24 * 60 * 60

(* C15 witness: a TaskManager constructed at time 0 was given              *)
(* setStartDate(3 days) and built: the Task starts on day 3 and ends on    *)
(* day 2                                                                   *)
C15_Witness ==
    /\ last.op = "TaskManager::build"
    /\ history[1].dates = {"startDate"}
    /\ chain[2] = [op |-> "TaskManager::setStartDate", arg |-> <<3 * Day>>]
    /\ built[1].startDate = 3 * Day
    /\ built[1].endDate = 2 * Day

(* the Update() calls of the entry action number `call` that went to the   *)
(* registration at position pos of the list of obj                         *)
Heard(obj, pos, call) ==
    {n \in DOMAIN inbox :
        inbox[n].task = obj /\ inbox[n].pos = pos /\ inbox[n].call = call}

(* C16: each registration on a Task receives, in call order, the           *)
(* entry-action text of exactly the changeState calls made on that Task    *)
(* after it was registered, one Update() for each: nothing from before is  *)
(* replayed, nothing from after is skipped, and the Update() calls of one  *)
(* transition all precede those of the next.                               *)
C16_RegistrationHearsWhatFollows ==
    /\ \A obj \in Built : Exists(obj) =>
          \A pos \in 1..Len(ObserversOf(obj)), i \in 1..Len(console) :
              IF i > history[obj].since[pos] /\ console[i].task = obj
              THEN /\ Cardinality(Heard(obj, pos, i)) = 1
                   /\ \A n \in Heard(obj, pos, i) : inbox[n].message = console[i].message
              ELSE Heard(obj, pos, i) = {}
    /\ \A m, n \in DOMAIN inbox : m < n => inbox[m].call <= inbox[n].call

(* C17: in the monitoring demo registration completes before monitoring    *)
(* begins: when the monitoring thread runs, both subscribe calls of main   *)
(* have returned (the list is email, sms) and main is in join(); no        *)
(* subscribe happens after the thread is started (the list never changes   *)
(* again); and never is main inside subscribe while the monitoring thread  *)
(* is inside notify.                                                       *)
C17_RegistrationBeforeMonitoring ==
    /\ [](monitorPc # "idle" =>
            /\ mainPc = "152"
            /\ eventObservers = <<"EmailNotification", "SMSNotification">>)
    /\ [][monitorPc # "idle" => eventObservers' = eventObservers]_vars
    /\ [](~(Writing /\ Reading))

(* C17 witness: the monitoring thread is inside notify, at the second      *)
(* observer of the list, with the CPU alert of usage 76 sent to the first  *)
C17_Witness ==
    /\ monitorPc = "notifyCpu"
    /\ cursor = 2
    /\ sent = <<[observer |-> "EmailNotification", message |-> CpuMessage(76)]>>

(* the field mutators and the registrations, of the TaskManager and of the *)
(* Task                                                                    *)
Mutators ==
    {"TaskManager::setDescription", "TaskManager::setPriority",
     "TaskManager::setStartDate", "TaskManager::setEndDate",
     "Task::setTitle", "Task::setDescription", "Task::setStartDate",
     "Task::setEndDate", "Task::setTaskPriority"}

Registrars == {"TaskManager::addTaskObserver", "Task::addTaskObserver"}

(* the Task t with the one field of the operation op replaced by v, or     *)
(* with v appended to its observer list when op is a registration          *)
With(t, op, v) ==
    CASE op = "Task::setTitle" -> [t EXCEPT !.taskTitle = v]
      [] op \in {"TaskManager::setDescription", "Task::setDescription"} ->
            [t EXCEPT !.taskDescription = v]
      [] op \in StartDateSetters -> [t EXCEPT !.startDate = v]
      [] op \in EndDateSetters -> [t EXCEPT !.endDate = v]
      [] op \in {"TaskManager::setPriority", "Task::setTaskPriority"} ->
            [t EXCEPT !.taskPriority = v]
      [] op \in Registrars ->
            [t EXCEPT !.taskContext.taskObservers = Append(@, v)]

(* C18: the field mutators of the Task and of the TaskManager, and         *)
(* addTaskObserver, make no Update() call, write no entry-action line and  *)
(* leave the current state as it is; a mutator replaces its own field and  *)
(* nothing else, addTaskObserver appends one entry to the observer list    *)
(* and changes nothing else; no other Task is touched.                     *)
C18_MutatorsChangeOneField ==
    [][\A obj \in Objects :
        (last'.op \in Mutators \cup Registrars /\ last'.obj = obj) =>
            /\ inbox' = inbox
            /\ console' = console
            /\ crashed' = crashed
            /\ TaskOf(obj)' = With(TaskOf(obj), last'.op, last'.arg[1])
            /\ getCurrentState(TaskOf(obj).taskContext)' = getCurrentState(TaskOf(obj).taskContext)
            /\ \A other \in Objects \ {obj} :
                  Exists(other) => TaskOf(other)' = TaskOf(other)]_vars

(* C18 witness: setTitle was called on a Task in InProgress whose          *)
(* observers email and sms have been told of the transition                *)
C18_Witness ==
    /\ last.op = "Task::setTitle"
    /\ TaskOf(last.obj).taskTitle = "Ops Task"
    /\ ObserversOf(last.obj) = <<"email", "sms">>
    /\ LabelOf(last.obj) = "InProgress"
    /\ Len(inbox) = 2
    /\ last.nInbox = 2

(* C19: the Id of a Task never changes: whatever was called since (setters *)
(* of the TaskManager, build(), mutators, addTaskObserver, changeState,    *)
(* print), the Id of the Task in the TaskManager and of the Task built     *)
(* from it is the id given to the constructor of the TaskManager.          *)
C19_IdImmutable ==
    \A obj \in Objects : Exists(obj) =>
        /\ chain[1].op = "TaskManager::TaskManager"
        /\ TaskOf(obj).Id = chain[1].arg[1]

(* C19 witness: a Task built by TaskManager(1002, ...) after a setter of   *)
(* the TaskManager, with an observer registered, after two transitions     *)
C19_Witness ==
    /\ Transitioned
    /\ used.calls = 2
    /\ used.sets = 1
    /\ Len(chain) >= 2
    /\ chain[1].arg[1] = 1002
    /\ Len(ObserversOf(last.obj)) >= 1
    /\ Len(inbox) >= 1
    /\ TaskOf(last.obj).Id = 1002

====
